---- MODULE Spec2Model ----
(***************************************************************************)
(* A model of download.py: the page-state reader with its retry loop       *)
(* (get_reader_store), the table-of-contents resolver (get_entries,        *)
(* get_uris_from_entries) and the orchestrator (get_books, main) with the  *)
(* thread pool that executes get_content.                                  *)
(*                                                                         *)
(* Three specifications share the module:                                  *)
(*   Spec        main() over a list of (language, scripture) pairs         *)
(*   SpecReader  one call of get_reader_store against an arbitrary server  *)
(*   SpecToc     get_entries / get_uris_from_entries on arbitrary stores   *)
(***************************************************************************)
EXTENDS Integers, Sequences, FiniteSets, TLC

VARIABLES
    \* ---- main() ----
    overwrite,   \* the overwrite argument of main
    threads,     \* max_workers of the pool handed to main
    files,       \* output directory: pair -> <<>> (no file) or <<content>>
    files0,      \* history: the output directory when main was called
    i,           \* position of the for loops: index of the current pair
    pc,          \* where main is
    retries,     \* main's retries counter of the current pair
    root,        \* state of the get_reader_store call for the root url
    book,        \* get_books' locals: scripture_title, scripture_uri, scripture_structure
    futures,     \* the futures pool.map created for the running get_books call
    stale,       \* number of workers still running a future of a get_books call that raised
    attempts,    \* history: number of get_books calls made for the current pair
    fetched,     \* history: the pairs for which requests.get has been called
    writes,      \* history: pair -> number of times the file was opened for writing
    outcome,     \* history: pair -> how its processing ended
    caught,      \* history: the exception main's except clause caught last in the current pair
    \* ---- one get_reader_store call ----
    rd,          \* state of the call
    rdFlag,      \* its raise_no_translation argument
    trace,       \* history: the responses the call has received, in order
    \* ---- table of contents ----
    toc,         \* a store, an exclusion list, and the results computed from them
    \* ---- the record of a content page ----
    doc          \* a locator, a content store, and the record built from them

mainVars == <<overwrite, threads, files, files0, i, pc, retries, root, book,
              futures, stale, attempts, fetched, writes, outcome, caught>>
readerVars == <<rd, rdFlag, trace>>
vars == <<mainVars, readerVars, toc, doc>>

(***************************************************************************)
(* Program constants                                                       *)
(***************************************************************************)
PageRetries == 5
PairRetries == 3
StatusOK == 200

NoPrimaryContentFoundError == "NoPrimaryContentFoundError"
NoRetriesLeftError == "NoRetriesLeftError"
NoTranslationAvailableError == "NoTranslationAvailableError"
NotImplementedError == "NotImplementedError"
Base64Error == "binascii.Error"
JSONDecodeError == "json.JSONDecodeError"
KeyError == "KeyError"

(***************************************************************************)
(* Responses.  A body is described by what the extraction steps of         *)
(* get_reader_store find in it, in the order the code looks:               *)
(*   marker   a script element whose text contains __INITIAL_STATE__       *)
(*   pattern  that script matches  window.__INITIAL_STATE__ = "(.*?)";     *)
(*   b64      the captured group is decodable base64                       *)
(*   json     the decoded bytes are a JSON document                        *)
(*   reader   the document has a "reader" key                              *)
(* id tells the bodies of different responses apart.                       *)
(***************************************************************************)
BodyShapes ==
    { s \in [marker : BOOLEAN, pattern : BOOLEAN, b64 : BOOLEAN,
             json : BOOLEAN, reader : BOOLEAN] :
        /\ s.pattern => s.marker
        /\ s.b64 => s.pattern
        /\ s.json => s.b64
        /\ s.reader => s.json }

Body(id, s) ==
    [id |-> id, marker |-> s.marker, pattern |-> s.pattern, b64 |-> s.b64,
     json |-> s.json, reader |-> s.reader]

Responses(id, shapes) ==
    { [status |-> st, body |-> Body(id, s)] :
        st \in {StatusOK, 404}, s \in shapes }

(***************************************************************************)
(* get_reader_store                                                        *)
(***************************************************************************)
\* Lines 64-90: what the try block does with the text of a 200 response.
Extract(body) ==
    IF ~body.marker THEN NoPrimaryContentFoundError
    ELSE IF ~body.pattern THEN NoPrimaryContentFoundError
    ELSE IF ~body.b64 THEN Base64Error
    ELSE IF ~body.json THEN JSONDecodeError
    ELSE IF ~body.reader THEN KeyError
    ELSE "ok"

\* Lines 53-55: the locals at the first evaluation of the loop condition.
\* html_doc is <<>> for None and <<body>> otherwise.
InitReader ==
    [pc |-> "run", retries |-> PageRetries, html_doc |-> <<>>, exc |-> ""]

IdleReader ==
    [pc |-> "idle", retries |-> 0, html_doc |-> <<>>, exc |-> ""]

ReaderRetryNotCounting(rs) == [rs EXCEPT !.pc = "sleep"]

\* Lines 91-95: the except clause; the loop condition is evaluated by ReaderWake.
ReaderRetry(rs) == [rs EXCEPT !.retries = @ - 1, !.pc = "sleep"]

ReaderStepIgnoringFlag(rs, flag, resp) ==
    IF resp.status # StatusOK THEN ReaderRetry(rs)
    ELSE LET got == [rs EXCEPT !.html_doc = <<resp.body>>]
             e == Extract(resp.body)
         IN  IF e = "ok" THEN [got EXCEPT !.pc = "returned"]
             ELSE IF e = NoPrimaryContentFoundError THEN ReaderRetry(got)
             ELSE [got EXCEPT !.pc = "raised", !.exc = e]

\* Lines 56-95: one pass through the loop body, given the response to requests.get.
ReaderStep(rs, flag, resp) ==
    IF resp.status # StatusOK
    THEN IF flag
         THEN [rs EXCEPT !.pc = "raised", !.exc = NoTranslationAvailableError]
         ELSE ReaderRetry(rs)
    ELSE LET got == [rs EXCEPT !.html_doc = <<resp.body>>]
             e == Extract(resp.body)
         IN  IF e = "ok" THEN [got EXCEPT !.pc = "returned"]
             ELSE IF e = NoPrimaryContentFoundError THEN ReaderRetry(got)
             ELSE [got EXCEPT !.pc = "raised", !.exc = e]

ReaderWakeOffByOne(rs) ==
    IF rs.retries > 1
    THEN [rs EXCEPT !.pc = "run"]
    ELSE [rs EXCEPT !.pc = "raised", !.exc = NoRetriesLeftError]

\* Lines 94-96, 55: time.sleep(2) returns, continue, the loop condition; when it
\* fails, NoRetriesLeftError(html_doc) is raised.
ReaderWake(rs) ==
    IF rs.retries # 0
    THEN [rs EXCEPT !.pc = "run"]
    ELSE [rs EXCEPT !.pc = "raised", !.exc = NoRetriesLeftError]

\* What is left of a get_reader_store call that has returned or raised: the
\* locals are gone; NoRetriesLeftError carries html_doc (line 96).
Ended(r) == r.pc \in {"returned", "raised"}
Left(r) ==
    [pc |-> r.pc, retries |-> 0, exc |-> r.exc,
     html_doc |-> IF r.exc = NoRetriesLeftError THEN r.html_doc ELSE <<>>]

(***************************************************************************)
(* Table of contents.  A source item is a dict that may hold the key       *)
(* "section" and the key "content": each is <<>> when the key is absent    *)
(* and <<record>> when present.  A store is a record with an entries list  *)
(* (book_store, or the value under "section").                             *)
(***************************************************************************)
SectionItem(title, entries) ==
    [section |-> <<[title |-> title, entries |-> entries]>>, content |-> <<>>]

ContentItem(title, uri) ==
    [section |-> <<>>, content |-> <<[title |-> title, uri |-> uri]>>]

OtherItem == [section |-> <<>>, content |-> <<>>]

\* Lines 109-115 and 119-125: the dicts get_entries appends.
SectionEntry(title, sub) == [type |-> "section", title |-> title, entries |-> sub]
ContentEntry(c) == [type |-> "content", title |-> c.title, uri |-> c.uri]

ExcludesNothing(uri, excluded) == FALSE

\* Line 117: item["content"]["uri"] in excluded
IsExcluded(uri, excluded) == uri \in excluded

\* Lines 103-129.  The result is [exc, entries]: exc is "" when the call returns
\* and the exception's name when it raises.
RECURSIVE get_entries(_, _)
RECURSIVE EntriesLoop(_, _)
EntriesLoop(items, excluded) ==
    IF items = <<>> THEN [exc |-> "", entries |-> <<>>]
    ELSE LET item == Head(items)
             rest == EntriesLoop(Tail(items), excluded)
         IN  IF item.section # <<>>
             THEN LET sub == get_entries(item.section[1], excluded)
                  IN  IF sub.exc # "" THEN sub
                      ELSE IF rest.exc # "" THEN rest
                      ELSE [exc |-> "",
                            entries |-> <<SectionEntry(item.section[1].title, sub.entries)>>
                                        \o rest.entries]
             ELSE IF item.content # <<>>
             THEN IF rest.exc # "" THEN rest
                  ELSE IF IsExcluded(item.content[1].uri, excluded) THEN rest
                  ELSE [exc |-> "",
                        entries |-> <<ContentEntry(item.content[1])>> \o rest.entries]
             ELSE [exc |-> NotImplementedError, entries |-> <<>>]

get_entries(store, excluded) == EntriesLoop(store.entries, excluded)

RECURSIVE get_uris_from_entries(_)
\* Lines 132-141.
get_uris_from_entries(entries) ==
    IF entries = <<>> THEN <<>>
    ELSE LET entry == Head(entries)
         IN  (IF "uri" \in DOMAIN entry THEN <<entry.uri>> ELSE <<>>)
             \o (IF "entries" \in DOMAIN entry
                 THEN get_uris_from_entries(entry.entries) ELSE <<>>)
             \o get_uris_from_entries(Tail(entries))


(***************************************************************************)
(* The record of a content page (get_content, lines 179-230).  A text is a *)
(* sequence of characters.  The parsed body (soup) is given by the         *)
(* elements the selectors of get_content look for: each of p.title-number, *)
(* p.study-summary, h1#title1, p.intro and p.subtitle is <<>> when the     *)
(* body has no such element and <<its text>> otherwise; body_block is <<>> *)
(* or <<the elements inside div.body-block, in document order>>.  An       *)
(* element of the body block has a name ("p.verse", "p", or another) and   *)
(* child nodes, each a tag ("text" for a bare string) with its text.       *)
(***************************************************************************)
Whitespace == {" ", "\n"}

\* str.strip()
RECURSIVE lstrip(_)
lstrip(t) == IF t # <<>> /\ Head(t) \in Whitespace THEN lstrip(Tail(t)) ELSE t

RECURSIVE rstrip(_)
rstrip(t) ==
    IF t # <<>> /\ t[Len(t)] \in Whitespace THEN rstrip(SubSeq(t, 1, Len(t) - 1)) ELSE t

strip(t) == rstrip(lstrip(t))

\* str.split("\n")
RECURSIVE split(_)
split(t) ==
    IF \A k \in DOMAIN t : t[k] # "\n" THEN <<t>>
    ELSE LET k == CHOOSE j \in DOMAIN t :
                    t[j] = "\n" /\ \A h \in 1..(j - 1) : t[h] # "\n"
         IN  <<SubSeq(t, 1, k - 1)>> \o split(SubSeq(t, k + 1, Len(t)))

NonEmpty(t) == t # <<>>

\* Lines 99-100.
get_striped_paragraphs(text) ==
    LET parts == split(text)
    IN  SelectSeq([k \in DOMAIN parts |-> strip(parts[k])], NonEmpty)

\* Tag.text: the strings below the tag, concatenated.
RECURSIVE text_of(_)
text_of(nodes) == IF nodes = <<>> THEN <<>> ELSE Head(nodes).text \o text_of(Tail(nodes))

\* Lines 217-220: tag.clear() on every child with the given tag.
clear(nodes, tag) ==
    [n \in DOMAIN nodes |->
        IF nodes[n].tag = tag THEN [nodes[n] EXCEPT !.text = <<>>] ELSE nodes[n]]

IsVerse(el) == el.name = "p.verse"
IsParagraph(el) == el.name \in {"p.verse", "p"}

\* Lines 217-221: the text of a verse once its markers and verse number are cleared.
VerseText(el) ==
    strip(text_of(clear(clear(el.nodes, "sup.marker"), "span.verse-number")))

VerseNumberFromZero(el, k) == k - 1

\* Line 216: enumerate(verses, start=1).
VerseNumber(el, k) == k

\* Line 199, second operand: book_title != content_title compares the Tag that
\* select_one returned with a str.  Tag.__eq__ answers False for every object that
\* is not a Tag, so the comparison is true whatever the two texts are.
TagDiffersFromStr(tag_text, s) == TRUE

\* What a record gets for an optional key.
Key(present, key, value) == IF present THEN key :> value ELSE <<>>

BodyAlwaysBoth(body_block) ==
    IF body_block = <<>> THEN <<>>
    ELSE LET verses == SelectSeq(body_block[1], IsVerse)
             paragraphs == SelectSeq(body_block[1], IsParagraph)
         IN  ("verses" :> [k \in DOMAIN verses |->
                            [number |-> VerseNumber(verses[k], k), text |-> VerseText(verses[k])]])
             @@ ("text" :> [k \in DOMAIN paragraphs |-> strip(text_of(paragraphs[k].nodes))])

\* Lines 210-228: the keys the body block gives.
BodyKeys(body_block) ==
    IF body_block = <<>> THEN <<>>
    ELSE LET verses == SelectSeq(body_block[1], IsVerse)
             paragraphs == SelectSeq(body_block[1], IsParagraph)
         IN  IF verses # <<>>
             THEN "verses" :> [k \in DOMAIN verses |->
                                 [number |-> VerseNumber(verses[k], k),
                                  text |-> VerseText(verses[k])]]
             ELSE "text" :> [k \in DOMAIN paragraphs |-> strip(text_of(paragraphs[k].nodes))]

\* Lines 183-230: the record built from the content store of the page.
content_data(uri, store) ==
    [uri |-> uri, title |-> store.title, data_type |-> store.data_type]
    @@ Key(store.title_number # <<>>, "chapter_name", strip(store.title_number[1]))
    @@ Key(store.study_summary # <<>>, "chapter_summary",
           get_striped_paragraphs(store.study_summary[1]))
    @@ Key(store.title1 # <<>> /\ TagDiffersFromStr(store.title1[1], store.title),
           "book_title", strip(store.title1[1]))
    @@ Key(store.intro # <<>>, "book_intro", get_striped_paragraphs(store.intro[1]))
    @@ Key(store.subtitle # <<>>, "subtitle", get_striped_paragraphs(store.subtitle[1]))
    @@ BodyKeys(store.body_block)

\* A content store whose body has none of the elements.
BareStore ==
    [title |-> <<"T">>, data_type |-> "D", title_number |-> <<>>, study_summary |-> <<>>,
     title1 |-> <<>>, intro |-> <<>>, subtitle |-> <<>>, body_block |-> <<>>]

IdleDoc == doc = [uri |-> "", store |-> BareStore, done |-> FALSE, warned |-> FALSE, data |-> <<>>]

\* The values the variables of the other specifications rest at.
NoBook == [title |-> "", uri |-> "", structure |-> <<>>]

IdleMain ==
    /\ overwrite = FALSE
    /\ threads = 0
    /\ files = <<>>
    /\ files0 = <<>>
    /\ i = 0
    /\ pc = "idle"
    /\ retries = 0
    /\ root = IdleReader
    /\ book = NoBook
    /\ futures = <<>>
    /\ stale = 0
    /\ attempts = 0
    /\ fetched = {}
    /\ writes = <<>>
    /\ outcome = <<>>
    /\ caught = ""

IdleCall == rd = IdleReader /\ rdFlag = FALSE /\ trace = <<>>

IdleToc ==
    toc = [store |-> [entries |-> <<>>], excluded |-> {}, done |-> FALSE,
           exc |-> "", entries |-> <<>>, uris |-> <<>>]

(***************************************************************************)
(* Spec: main().  languages is 1..NLangs, scriptures is Scriptures; pair p *)
(* is the p-th iteration of the nested for loops (languages outer).        *)
(***************************************************************************)
NLangs == 2
MaxThreads == 2
Scriptures == <<"bofm">>
NPairs == NLangs * Len(Scriptures)
Pairs == 1..NPairs
LangOf(p) == ((p - 1) \div Len(Scriptures)) + 1
ScriptureOf(p) == Scriptures[((p - 1) % Len(Scriptures)) + 1]

\* Lines 33-36 and DEFAULT_EXCLUDED.get(scripture, []) of line 260.
DEFAULT_EXCLUDED(scripture) ==
    CASE scripture = "bofm" -> {"illustrations"}
      [] scripture = "dc-testament" -> {"chron-order"}
      [] OTHER -> {}

\* The book stores a root page may hold: one of sections and contents, with a
\* locator that DEFAULT_EXCLUDED excludes, one that lists a locator twice, and
\* one with an item that is neither a section nor a content.
MainStores ==
    { [title |-> "T", uri |-> "root",
       entries |-> <<ContentItem("T", "illustrations"),
                     SectionItem("T", <<ContentItem("T", "ch1"), ContentItem("T", "ch2")>>)>>],
      [title |-> "T", uri |-> "root",
       entries |-> <<ContentItem("T", "ch1"), ContentItem("T", "ch1")>>],
      [title |-> "T", uri |-> "root",
       entries |-> <<ContentItem("T", "ch1"), OtherItem>>] }

\* The answers of the server in Spec.  To the root url: a complete page, a page
\* without the marker script, a page whose payload is not base64, or a non-success
\* status.  To a content url: a complete page, a page whose payload is not base64,
\* or a non-success status (which a content fetch retries like a missing marker).
RootShapes == { s \in BodyShapes : s.reader \/ ~s.marker \/ (s.pattern /\ ~s.b64) }
ContentShapes == { s \in BodyShapes : s.reader \/ (s.pattern /\ ~s.b64) }
RootResponses ==
    { r \in Responses(0, RootShapes) : r.status = StatusOK \/ r.body.reader }
ContentResponses ==
    { r \in Responses(0, ContentShapes) : r.status = StatusOK \/ r.body.reader }

OldFile == [title |-> "old", uri |-> "old", structure |-> <<>>, contents |-> <<>>]

\* Lines 179-230: the record get_content builds from a complete page.
get_content(uri) == [uri |-> uri, title |-> "T", data_type |-> "D"]

InitMain ==
    /\ IdleCall
    /\ IdleToc
    /\ IdleDoc
    /\ overwrite \in BOOLEAN
    /\ threads \in 1..MaxThreads
    /\ files0 \in [Pairs -> {<<>>, <<OldFile>>}]
    /\ files = files0
    /\ i = 1
    /\ pc = "for"
    /\ retries = 0
    /\ root = IdleReader
    /\ book = NoBook
    /\ futures = <<>>
    /\ stale = 0
    /\ attempts = 0
    /\ fetched = {}
    /\ writes = [p \in Pairs |-> 0]
    /\ outcome = [p \in Pairs |-> ""]
    /\ caught = ""

AlwaysFetch(p) == FALSE

\* Line 250: output_json.exists() and not overwrite
ShouldSkip(p) == files[p] # <<>> /\ ~overwrite

\* Lines 245-252: the next pair's file exists and overwrite is off: continue.
SkipExisting ==
    /\ pc = "for"
    /\ i <= NPairs
    /\ ShouldSkip(i)
    /\ outcome' = [outcome EXCEPT ![i] = "skipped"]
    /\ i' = i + 1
    /\ UNCHANGED <<overwrite, threads, files, files0, pc, retries, root, book, futures,
                   stale, attempts, fetched, writes, caught, readerVars, toc, doc>>

BeginPairOpeningFile ==
    /\ pc = "for"
    /\ i <= NPairs
    /\ ~ShouldSkip(i)
    /\ retries' = PairRetries
    /\ attempts' = 0
    /\ caught' = ""
    /\ pc' = "while"
    /\ files' = [files EXCEPT ![i] = <<>>]
    /\ UNCHANGED <<overwrite, threads, files0, i, root, book, futures, stale,
                   fetched, writes, outcome, readerVars, toc, doc>>

\* Lines 245-254: the next pair is to be downloaded: retries = 3.
BeginPair ==
    /\ pc = "for"
    /\ i <= NPairs
    /\ ~ShouldSkip(i)
    /\ retries' = PairRetries
    /\ attempts' = 0
    /\ caught' = ""
    /\ pc' = "while"
    /\ UNCHANGED <<overwrite, threads, files, files0, i, root, book, futures, stale,
                   fetched, writes, outcome, readerVars, toc, doc>>

\* Line 278: both for loops are exhausted.
Finish ==
    /\ pc = "for"
    /\ i > NPairs
    /\ pc' = "finished"
    /\ UNCHANGED <<overwrite, threads, files, files0, i, retries, root, book, futures,
                   stale, attempts, fetched, writes, outcome, caught, readerVars, toc, doc>>

WhileOffByOne ==
    /\ pc = "while"
    /\ IF retries > 1
       THEN /\ attempts' = attempts + 1
            /\ root' = InitReader
            /\ pc' = "root"
            /\ caught' = ""
            /\ UNCHANGED outcome
       ELSE /\ pc' = "raised"
            /\ outcome' = [outcome EXCEPT ![i] = "fatal"]
            /\ UNCHANGED <<attempts, root, caught>>
    /\ UNCHANGED <<overwrite, threads, files, files0, i, retries, book, futures, stale,
                   fetched, writes, readerVars, toc, doc>>

\* Lines 255-257 and 276-277: the while condition.  When it holds get_books is
\* called and enters get_reader_store for the root url (lines 150-153, 52-54);
\* when it fails the else clause raises NoRetriesLeftError out of main.
While ==
    /\ pc = "while"
    /\ IF retries # 0
       THEN /\ attempts' = attempts + 1
            /\ root' = InitReader
            /\ pc' = "root"
            /\ caught' = ""
            /\ UNCHANGED outcome
       ELSE /\ pc' = "raised"
            /\ outcome' = [outcome EXCEPT ![i] = "fatal"]
            /\ UNCHANGED <<attempts, root, caught>>
    /\ UNCHANGED <<overwrite, threads, files, files0, i, retries, book, futures, stale,
                   fetched, writes, readerVars, toc, doc>>

CatchRetryingAll(e) ==
    /\ root' = IdleReader
    /\ book' = NoBook
    /\ futures' = <<>>
    /\ caught' = e
    /\ retries' = retries - 1
    /\ pc' = "sleep"
    /\ UNCHANGED <<i, outcome>>

\* Lines 263-270: the except clause of main, entered with exception e raised out
\* of get_books (whose locals are gone).
Catch(e) ==
    /\ root' = IdleReader
    /\ book' = NoBook
    /\ futures' = <<>>
    /\ caught' = e
    /\ IF e = NoTranslationAvailableError
       THEN /\ outcome' = [outcome EXCEPT ![i] = "no_translation"]
            /\ i' = i + 1
            /\ pc' = "for"
            /\ UNCHANGED retries
       ELSE /\ retries' = retries - 1
            /\ pc' = "sleep"
            /\ UNCHANGED <<i, outcome>>

ResolveDispatchingAll(store) ==
    LET r == get_entries(store, DEFAULT_EXCLUDED(ScriptureOf(i)))
        uris == get_uris_from_entries(get_entries(store, {}).entries)
    IN  IF r.exc # ""
        THEN Catch(r.exc)
        ELSE /\ root' = Left([root EXCEPT !.pc = "returned"])
             /\ book' = [title |-> store.title, uri |-> store.uri, structure |-> r.entries]
             /\ futures' = [k \in 1..Len(uris) |->
                              [uri |-> uris[k], st |-> "pending", rs |-> IdleReader,
                               result |-> <<>>, seq |-> 0]]
             /\ pc' = "join"
             /\ UNCHANGED <<i, retries, outcome, caught>>

\* Lines 155-163 of get_books, entered with the reader of the root page: the
\* structure is resolved and flattened, and pool.map submits one future per uri.
Resolve(store) ==
    LET r == get_entries(store, DEFAULT_EXCLUDED(ScriptureOf(i)))
        uris == get_uris_from_entries(r.entries)
    IN  IF r.exc # ""
        THEN Catch(r.exc)
        ELSE /\ root' = Left([root EXCEPT !.pc = "returned"])
             /\ book' = [title |-> store.title, uri |-> store.uri, structure |-> r.entries]
             /\ futures' = [k \in 1..Len(uris) |->
                              [uri |-> uris[k], st |-> "pending", rs |-> IdleReader,
                               result |-> <<>>, seq |-> 0]]
             /\ pc' = "join"
             /\ UNCHANGED <<i, retries, outcome, caught>>

\* Lines 151-153 with 56-95: one pass of get_reader_store for the root url.
RootRequest ==
    /\ pc = "root"
    /\ root.pc = "run"
    /\ fetched' = fetched \cup {i}
    /\ \E resp \in RootResponses :
        LET r == ReaderStep(root, TRUE, resp)
        IN  CASE r.pc = "sleep" ->
                   /\ root' = r
                   /\ UNCHANGED <<i, pc, retries, book, futures, outcome, caught>>
              [] r.pc = "raised" -> Catch(r.exc)
              [] r.pc = "returned" -> \E store \in MainStores : Resolve(store)
    /\ UNCHANGED <<overwrite, threads, files, files0, stale, attempts, writes,
                   readerVars, toc, doc>>

\* Lines 94-96 for the root url: the sleep ends.
RootWake ==
    /\ pc = "root"
    /\ root.pc = "sleep"
    /\ LET r == ReaderWake(root)
       IN  IF r.pc = "raised"
           THEN Catch(r.exc)
           ELSE /\ root' = r
                /\ UNCHANGED <<i, pc, retries, book, futures, outcome, caught>>
    /\ UNCHANGED <<overwrite, threads, files, files0, stale, attempts, fetched, writes,
                   readerVars, toc, doc>>

\* Line 270: time.sleep(10) returns.
Sleep ==
    /\ pc = "sleep"
    /\ pc' = "while"
    /\ UNCHANGED <<overwrite, threads, files, files0, i, retries, root, book, futures,
                   stale, attempts, fetched, writes, outcome, caught, readerVars, toc, doc>>

(***************************************************************************)
(* The pool (line 320, ThreadPoolExecutor(max_workers)) and its workers.   *)
(* A worker thread takes the oldest pending work item; at most threads     *)
(* work items run at a time, those of failed get_books calls included.     *)
(***************************************************************************)
RunningOfThisCall ==
    Cardinality({k \in DOMAIN futures : futures[k].st = "running"})

Running ==
    Cardinality({k \in DOMAIN futures : futures[k].st = "running"}) + stale

\* History: how many futures of the running get_books call have finished.
Finished == Cardinality({k \in DOMAIN futures : futures[k].st = "finished"})

\* The state of a future whose get_reader_store call is in state r.  seq is
\* history: the future was the seq-th of its call to finish.
Advance(f, r) ==
    CASE r.pc = "returned" ->
           [f EXCEPT !.rs = Left(r), !.st = "finished", !.seq = Finished + 1,
                     !.result = <<get_content(f.uri)>>]
      [] r.pc = "raised" -> [f EXCEPT !.rs = Left(r), !.st = "finished", !.seq = Finished + 1]
      [] OTHER -> [f EXCEPT !.rs = r]

\* Lines 175-177: a worker starts get_content(uri, lang).
FutureStart(k) ==
    /\ futures[k].st = "pending"
    /\ \A j \in 1..(k - 1) : futures[j].st # "pending"
    /\ Running < threads
    /\ futures' = [futures EXCEPT ![k].st = "running", ![k].rs = InitReader]
    /\ UNCHANGED <<overwrite, threads, files, files0, i, pc, retries, root, book, stale,
                   attempts, fetched, writes, outcome, caught, readerVars, toc, doc>>

FutureRequestWithFlag(k) ==
    /\ futures[k].st = "running"
    /\ futures[k].rs.pc = "run"
    /\ fetched' = fetched \cup {i}
    /\ \E resp \in ContentResponses :
        futures' = [futures EXCEPT ![k] = Advance(@, ReaderStep(@.rs, TRUE, resp))]
    /\ UNCHANGED <<overwrite, threads, files, files0, i, pc, retries, root, book, stale,
                   attempts, writes, outcome, caught, readerVars, toc, doc>>

FutureRequestUnderLock(k) ==
    /\ futures[k].st = "running"
    /\ futures[k].rs.pc = "run"
    /\ \A j \in DOMAIN futures : futures[j].rs.pc # "sleep"
    /\ fetched' = fetched \cup {i}
    /\ \E resp \in ContentResponses :
        futures' = [futures EXCEPT ![k] = Advance(@, ReaderStep(@.rs, FALSE, resp))]
    /\ UNCHANGED <<overwrite, threads, files, files0, i, pc, retries, root, book, stale,
                   attempts, writes, outcome, caught, readerVars, toc, doc>>

\* Line 177 with 56-95: one pass of get_reader_store for a content url; when it
\* returns, lines 179-230 build the record.
FutureRequest(k) ==
    /\ futures[k].st = "running"
    /\ futures[k].rs.pc = "run"
    /\ fetched' = fetched \cup {i}
    /\ \E resp \in ContentResponses :
        futures' = [futures EXCEPT ![k] = Advance(@, ReaderStep(@.rs, FALSE, resp))]
    /\ UNCHANGED <<overwrite, threads, files, files0, i, pc, retries, root, book, stale,
                   attempts, writes, outcome, caught, readerVars, toc, doc>>

\* Lines 94-96 for a content url: the sleep ends.
FutureWake(k) ==
    /\ futures[k].st = "running"
    /\ futures[k].rs.pc = "sleep"
    /\ futures' = [futures EXCEPT ![k] = Advance(@, ReaderWake(@.rs))]
    /\ UNCHANGED <<overwrite, threads, files, files0, i, pc, retries, root, book, stale,
                   attempts, fetched, writes, outcome, caught, readerVars, toc, doc>>

\* A worker whose get_books call has already raised ends its get_content call,
\* after any number of passes of get_reader_store; the result is dropped and the
\* thread is free again.  (Its url belongs to a pair that is already in fetched.)
StaleEnd ==
    /\ stale > 0
    /\ stale' = stale - 1
    /\ UNCHANGED <<overwrite, threads, files, files0, i, pc, retries, root, book,
                   futures, attempts, fetched, writes, outcome, caught, readerVars, toc, doc>>

(***************************************************************************)
(* list(pool.map(...)): main takes the results in submission order.        *)
(***************************************************************************)
Succeeded(k) == futures[k].st = "finished" /\ futures[k].rs.pc = "returned"

contents_by_completion ==
    [u \in {futures[k].uri : k \in DOMAIN futures} |->
        LET k == CHOOSE j \in DOMAIN futures : futures[j].uri = u
            n == CHOOSE j \in DOMAIN futures : futures[j].seq = k
        IN  futures[n].result[1]]

\* Line 165: {content["uri"]: content for content in contents}
contents_dict ==
    LET contents == [k \in DOMAIN futures |-> futures[k].result[1]]
        last(u) == CHOOSE k \in DOMAIN contents :
                      /\ contents[k].uri = u
                      /\ \A j \in DOMAIN contents : contents[j].uri = u => j <= k
    IN  [u \in {contents[k].uri : k \in DOMAIN contents} |-> contents[last(u)]]

JoinReturnFirstDone ==
    /\ pc = "join"
    /\ futures # <<>>
    /\ Succeeded(1)
    /\ files' = [files EXCEPT ![i] =
                    <<[title |-> book.title, uri |-> book.uri,
                       structure |-> book.structure,
                       contents |-> [u \in {futures[1].uri} |-> futures[1].result[1]]]>>]
    /\ writes' = [writes EXCEPT ![i] = @ + 1]
    /\ outcome' = [outcome EXCEPT ![i] = "persisted"]
    /\ i' = i + 1
    /\ pc' = "for"
    /\ root' = IdleReader
    /\ book' = NoBook
    /\ futures' = <<>>
    /\ stale' = stale + Cardinality({k \in DOMAIN futures : futures[k].st = "running"})
    /\ UNCHANGED <<overwrite, threads, files0, retries, attempts, fetched, caught, readerVars, toc, doc>>

\* Lines 163-172 and 271-275: every future has a result; get_books returns and
\* main writes the file and leaves the while loop.
JoinReturn ==
    /\ pc = "join"
    /\ \A k \in DOMAIN futures : Succeeded(k)
    /\ files' = [files EXCEPT ![i] =
                    <<[title |-> book.title, uri |-> book.uri,
                       structure |-> book.structure, contents |-> contents_dict]>>]
    /\ writes' = [writes EXCEPT ![i] = @ + 1]
    /\ outcome' = [outcome EXCEPT ![i] = "persisted"]
    /\ i' = i + 1
    /\ pc' = "for"
    /\ root' = IdleReader
    /\ book' = NoBook
    /\ futures' = <<>>
    /\ UNCHANGED <<overwrite, threads, files0, retries, stale, attempts, fetched,
                   caught, readerVars, toc, doc>>

\* Line 163 and 263-270: the first future without a result has raised; the
\* iterator of pool.map cancels the pending futures, the running ones go on, and
\* the exception reaches main's except clause.
JoinRaise ==
    /\ pc = "join"
    /\ \E k \in DOMAIN futures :
        /\ \A j \in 1..(k - 1) : Succeeded(j)
        /\ futures[k].st = "finished"
        /\ futures[k].rs.pc = "raised"
        /\ Catch(futures[k].rs.exc)
    /\ stale' = stale + Cardinality({k \in DOMAIN futures : futures[k].st = "running"})
    /\ UNCHANGED <<overwrite, threads, files, files0, attempts, fetched, writes,
                   readerVars, toc, doc>>

Next ==
    \/ SkipExisting
    \/ BeginPair
    \/ Finish
    \/ While
    \/ RootRequest
    \/ RootWake
    \/ Sleep
    \/ \E k \in DOMAIN futures : FutureStart(k)
    \/ \E k \in DOMAIN futures : FutureRequest(k)
    \/ \E k \in DOMAIN futures : FutureWake(k)
    \/ StaleEnd
    \/ JoinReturn
    \/ JoinRaise

Spec == InitMain /\ [][Next]_vars

\* Whether main fetches a pair depends on the files and on overwrite only through
\* ShouldSkip, and a run with overwrite on takes the steps of the run without it
\* over no files: the runs with overwrite off show every course main can take.
InitFair == InitMain /\ ~overwrite

\* The run under the assumption that every requests.get returns: the thread of
\* main and the worker threads are scheduled, every request is answered and every
\* time.sleep ends, so a step that can be taken is taken in the end.
SpecFair == InitFair /\ [][Next]_vars /\ WF_vars(Next)

(***************************************************************************)
(* SpecReader: one call of get_reader_store.  The server may answer every  *)
(* request with either status and any body.                                *)
(***************************************************************************)
InitReaderCall ==
    /\ IdleMain
    /\ IdleToc
    /\ IdleDoc
    /\ rd = InitReader
    /\ rdFlag \in BOOLEAN
    /\ trace = <<>>

\* Lines 57-90 of one pass: requests.get answers, the try block runs.
RdRequest ==
    /\ rd.pc = "run"
    /\ \E resp \in Responses(Len(trace) + 1, BodyShapes) :
        /\ rd' = ReaderStep(rd, rdFlag, resp)
        /\ trace' = Append(trace, resp)
    /\ UNCHANGED <<mainVars, rdFlag, toc, doc>>

\* Lines 94-96: the sleep ends.
RdWake ==
    /\ rd.pc = "sleep"
    /\ rd' = ReaderWake(rd)
    /\ UNCHANGED <<mainVars, rdFlag, trace, toc, doc>>

NextReader == RdRequest \/ RdWake

SpecReader == InitReaderCall /\ [][NextReader]_vars

(***************************************************************************)
(* SpecToc: get_uris_from_entries(get_entries(store, excluded)) on every   *)
(* store of sections and contents with at most MaxNodes items, and on the  *)
(* three-level fixture, with every exclusion list over the locators.       *)
(***************************************************************************)
MaxNodes == 4
TocUris == {"a1", "b1", "b2"}

\* The entries lists with exactly n items in all, nested ones included.
Forests[n \in 0..MaxNodes] ==
    IF n = 0 THEN {<<>>}
    ELSE UNION { { <<t>> \o r :
                     t \in (IF k = 1 THEN {ContentItem("T", u) : u \in TocUris} ELSE {})
                           \cup {SectionItem("T", f) : f \in Forests[k - 1]},
                     r \in Forests[n - k] } : k \in 1..n }

\* Section(A) -> [Content(a1), Section(B) -> [Content(b1), Content(b2)]]
Fixture ==
    [entries |->
        <<SectionItem("T", <<ContentItem("T", "a1"),
                             SectionItem("T", <<ContentItem("T", "b1"),
                                                ContentItem("T", "b2")>>)>>)>>]

TocStores ==
    { [entries |-> f] : f \in UNION { Forests[n] : n \in 0..MaxNodes } } \cup {Fixture}

InitToc ==
    /\ IdleMain
    /\ IdleCall
    /\ IdleDoc
    /\ \E st \in TocStores, ex \in SUBSET TocUris :
        toc = [store |-> st, excluded |-> ex, done |-> FALSE,
               exc |-> "", entries |-> <<>>, uris |-> <<>>]

\* Lines 159-161 of get_books.
TocResolve ==
    /\ ~toc.done
    /\ LET r == get_entries(toc.store, toc.excluded)
       IN  toc' = [toc EXCEPT !.done = TRUE, !.exc = r.exc, !.entries = r.entries,
                              !.uris = IF r.exc = "" THEN get_uris_from_entries(r.entries)
                                       ELSE <<>>]
    /\ UNCHANGED <<mainVars, readerVars, doc>>

NextToc == TocResolve

SpecToc == InitToc /\ [][NextToc]_vars

(***************************************************************************)
(* SpecContent: the record get_content builds from one content store.      *)
(***************************************************************************)
MaxElements == 3

Node(tag, text) == [tag |-> tag, text |-> text]

\* The children an element of the body block may have: a verse number and text;
\* a verse number that differs from the verse's position, text, a footnote marker
\* and text with a digit; text in whitespace; a span that is no verse number;
\* nothing.
NodeLists ==
    { <<Node("span.verse-number", <<"5", " ">>), Node("text", <<"x">>)>>,
      <<Node("span.verse-number", <<"7">>), Node("text", <<"x", " ">>),
        Node("sup.marker", <<"a">>), Node("text", <<"5">>)>>,
      <<Node("text", <<" ", "x", "\n">>)>>,
      <<Node("span", <<"5">>), Node("sup.marker", <<"a">>)>>,
      <<>> }

Elements == [name : {"p.verse", "p", "h2"}, nodes : NodeLists]

RECURSIVE Bodies(_)
Bodies(n) ==
    IF n = 0 THEN {<<>>}
    ELSE LET shorter == Bodies(n - 1)
         IN  shorter \cup {Append(b, el) : b \in {c \in shorter : Len(c) = n - 1}, el \in Elements}

\* Three verses whose own numbers are 5, 5 and 7.
Verse5 == [name |-> "p.verse",
           nodes |-> <<Node("span.verse-number", <<"5", " ">>), Node("text", <<"x">>)>>]
Verse7 == [name |-> "p.verse",
           nodes |-> <<Node("span.verse-number", <<"7">>), Node("text", <<"x", " ">>),
                       Node("sup.marker", <<"a">>), Node("text", <<"5">>)>>]
Verses557 == <<Verse5, Verse5, Verse7>>

\* A text with a line break and blanks.
Lines == <<" ", "x", "\n", " ", "\n", "y", " ">>

OptionalText == {<<>>, <<Lines>>}

\* h1#title1: absent, with the title of the store as its text, with that title in
\* blanks, with another text.
Title1s == {<<>>, <<(<<"T">>)>>, <<(<<" ", "T", "\n">>)>>, <<(<<"B">>)>>}

\* The content stores: every combination of the optional elements with a few
\* body blocks, and every body block with no or all optional elements.
ProbeBodies == {<<>>, <<(<<>>)>>, <<(<<Verse5>>)>>, <<(<<[Verse5 EXCEPT !.name = "p"]>>)>>}

ContentStores ==
    { [title |-> <<"T">>, data_type |-> "D", title_number |-> tn, study_summary |-> ss,
       title1 |-> t1, intro |-> it, subtitle |-> st, body_block |-> bb] :
        tn \in OptionalText, ss \in OptionalText, t1 \in Title1s, it \in OptionalText,
        st \in OptionalText, bb \in ProbeBodies }
    \cup
    { [title |-> <<"T">>, data_type |-> "D", title_number |-> o, study_summary |-> o,
       title1 |-> t1, intro |-> o, subtitle |-> o, body_block |-> <<b>>] :
        o \in OptionalText, t1 \in {<<>>, <<(<<"T">>)>>}, b \in Bodies(MaxElements) }

InitContent ==
    /\ IdleMain
    /\ IdleCall
    /\ IdleToc
    /\ \E store \in ContentStores :
        doc = [uri |-> "ch1", store |-> store, done |-> FALSE, warned |-> FALSE, data |-> <<>>]

\* Lines 179-230 of get_content, given the reader of the page.
ContentBuild ==
    /\ ~doc.done
    /\ doc' = [doc EXCEPT !.done = TRUE,
                          !.warned = (doc.store.body_block = <<>>),
                          !.data = content_data(doc.uri, doc.store)]
    /\ UNCHANGED <<mainVars, readerVars, toc>>

NextContent == ContentBuild

SpecContent == InitContent /\ [][NextContent]_vars

(***************************************************************************)
(* Claims about get_reader_store (SpecReader)                              *)
(***************************************************************************)
Last == trace[Len(trace)]

\* Every response so far had status 200 and a body without the marker script or
\* without the assignment pattern.
OnlyExtractionFailures ==
    \A k \in DOMAIN trace :
        trace[k].status = 200 /\ ~(trace[k].body.marker /\ trace[k].body.pattern)

\* C3: when every response has success status and fails extraction (no marker, no
\* pattern), the call issues exactly 5 requests and then raises NoRetriesLeftError:
\* it never returns, never issues a 6th request, never raises before the 5th
\* attempt has failed, and each failure costs one retry and is followed by the
\* backoff.
C3_FiveAttemptsThenNoRetriesLeft ==
    OnlyExtractionFailures =>
        /\ Len(trace) <= 5
        /\ rd.pc \in {"run", "sleep", "raised"}
        /\ rd.pc = "run" => Len(trace) < 5
        /\ rd.pc \in {"run", "sleep"} => rd.retries = 5 - Len(trace)
        /\ rd.pc = "raised" => rd.exc = NoRetriesLeftError /\ Len(trace) = 5

C3_Witness ==
    /\ OnlyExtractionFailures
    /\ Len(trace) = 5
    /\ rd.pc = "raised"
    /\ rd.exc = NoRetriesLeftError

\* C4: with raise_no_translation set, a non-success status makes the call raise
\* NoTranslationAvailableError at once: that response costs no retry, gets no
\* extraction attempt (its body never becomes html_doc) and no backoff; when it is
\* the first response, one request has been issued, html_doc is still None and the
\* retry budget is untouched.
C4_NoTranslationImmediately ==
    (rdFlag /\ trace # <<>> /\ Last.status # 200) =>
        /\ rd.pc = "raised"
        /\ rd.exc = NoTranslationAvailableError
        /\ rd.retries = 5 - (Len(trace) - 1)
        /\ rd.html_doc # <<Last.body>>
        /\ Len(trace) = 1 => rd.html_doc = <<>> /\ rd.retries = 5

C4_Witness ==
    /\ rdFlag
    /\ Len(trace) = 1
    /\ trace[1].status # 200
    /\ rd.pc = "raised"
    /\ rd.exc = NoTranslationAvailableError

\* C7 (as claimed): a payload that fails base64 decoding, or decodes to bytes that
\* are not JSON, is retried at the page level like every extraction fault: the
\* call does not return on it, and the only exception it can end in is
\* NoRetriesLeftError.
C7_DecodeFaultsRetried ==
    (/\ trace # <<>>
     /\ Last.status = 200
     /\ Last.body.pattern
     /\ ~(Last.body.b64 /\ Last.body.json)) =>
        /\ rd.pc \in {"run", "sleep", "raised"}
        /\ rd.pc = "raised" => rd.exc = NoRetriesLeftError

\* C8 (as claimed): NoRetriesLeftError carries the body of the last response
\* received, whatever the statuses of the responses were.
C8_CarriesLastBody ==
    (rd.pc = "raised" /\ rd.exc = NoRetriesLeftError) => rd.html_doc = <<Last.body>>

(***************************************************************************)
(* Claims about the table of contents (SpecToc)                            *)
(***************************************************************************)
\* The content locators of a source entries list, in pre-order.
RECURSIVE SourceLocators(_)
SourceLocators(items) ==
    IF items = <<>> THEN <<>>
    ELSE LET item == Head(items)
         IN  (IF item.section # <<>> THEN SourceLocators(item.section[1].entries)
              ELSE <<item.content[1].uri>>)
             \o SourceLocators(Tail(items))

RECURSIVE SourceSections(_)
SourceSections(items) ==
    IF items = <<>> THEN 0
    ELSE LET item == Head(items)
         IN  (IF item.section # <<>> THEN 1 + SourceSections(item.section[1].entries)
              ELSE 0)
             + SourceSections(Tail(items))

RECURSIVE ResolvedSections(_)
ResolvedSections(entries) ==
    IF entries = <<>> THEN 0
    ELSE LET entry == Head(entries)
         IN  (IF entry.type = "section" THEN 1 + ResolvedSections(entry.entries) ELSE 0)
             + ResolvedSections(Tail(entries))

Kept(u) == u \notin toc.excluded

\* C10: for every store of sections and contents and every exclusion list, the
\* flattened locators of the resolved structure are the source's content locators
\* in pre-order with the excluded ones removed; no section is dropped; the fixture
\* with b1 excluded flattens to <<a1, b2>>.
C10_FlattenedIsFilteredPreOrder ==
    toc.done =>
        /\ toc.exc = ""
        /\ toc.uris = SelectSeq(SourceLocators(toc.store.entries), Kept)
        /\ ResolvedSections(toc.entries) = SourceSections(toc.store.entries)
        /\ (toc.store = Fixture /\ toc.excluded = {"b1"}) => toc.uris = <<"a1", "b2">>

C10_Witness ==
    /\ toc.done
    /\ toc.store = Fixture
    /\ toc.excluded = {"b1"}
    /\ toc.uris = <<"a1", "b2">>

(***************************************************************************)
(* Claims about main (Spec)                                                *)
(***************************************************************************)
Locators(entries) == { get_uris_from_entries(entries)[k] : k \in DOMAIN get_uris_from_entries(entries) }

\* A file written in this run holds a complete corpus: one record per locator of
\* its structure, stored under its own locator.
CompleteCorpus(file) ==
    /\ DOMAIN file.contents = Locators(file.structure)
    /\ \A u \in DOMAIN file.contents : file.contents[u].uri = u

\* C1: a pair's file is written at most once per run, and only by a get_books call
\* whose root fetch returned, whose structure is resolved and all of whose content
\* fetches have succeeded; no reachable state holds a file of this run that lacks
\* a locator of its structure.
C1_PersistedOnceAndComplete ==
    /\ [](\A p \in Pairs :
            /\ writes[p] <= 1
            /\ files[p] # files0[p] => writes[p] = 1 /\ CompleteCorpus(files[p][1]))
    /\ [][\A p \in Pairs :
            (files'[p] # files[p] \/ writes'[p] # writes[p]) =>
                /\ p = i
                /\ pc = "join"
                /\ writes[p] = 0
                /\ writes'[p] = 1
                /\ root.pc = "returned"
                /\ Len(futures) = Len(get_uris_from_entries(book.structure))
                /\ \A k \in DOMAIN futures :
                    /\ futures[k].st = "finished"
                    /\ futures[k].rs.pc = "returned"
                    /\ futures[k].result = <<get_content(futures[k].uri)>>
                /\ files'[p][1].structure = book.structure
                /\ CompleteCorpus(files'[p][1])]_vars

\* The last pair was persisted by its second get_books call, after a failed one.
C1_Witness ==
    /\ pc = "finished"
    /\ outcome[NPairs] = "persisted"
    /\ attempts = 2
    /\ writes[NPairs] = 1
    /\ Cardinality(DOMAIN files[NPairs][1].contents) = 2

\* C2: when main ends in NoRetriesLeftError, the failing pair has had exactly 3
\* get_books calls, each of which raised; every call started from the root fetch
\* with nothing left of the one before; nothing was written for the pair, and no
\* later pair was touched (no request, no file, no outcome).
C2_ThreeAttemptsThenFatal ==
    /\ attempts <= 3
    /\ pc \in {"while", "sleep"} =>
        /\ attempts = 3 - retries
        /\ root = IdleReader /\ book = NoBook /\ futures = <<>>
    /\ pc = "root" =>
        /\ attempts = 3 - retries + 1
        /\ book = NoBook /\ futures = <<>>
        /\ (root.pc = "run" /\ root.retries = 5) => root.html_doc = <<>>
    /\ pc = "raised" =>
        /\ attempts = 3
        /\ retries = 0
        /\ caught \notin {"", NoTranslationAvailableError}
        /\ outcome[i] = "fatal"
        /\ writes[i] = 0
        /\ files[i] = files0[i]
        /\ \A p \in Pairs : p > i =>
            /\ outcome[p] = ""
            /\ p \notin fetched
            /\ writes[p] = 0
            /\ files[p] = files0[p]

\* The first pair exhausted its attempts by a page-level NoRetriesLeftError while a
\* later pair was still to come.
C2_Witness ==
    /\ pc = "raised"
    /\ i = 1
    /\ NPairs > 1
    /\ attempts = 3
    /\ caught = NoRetriesLeftError

\* C5: when get_books raises NoTranslationAvailableError, main leaves the while
\* loop at once: no backoff, no retry counted, no further get_books call for the
\* pair, no file written; main goes on with the next pair and the pair is not the
\* one a NoRetriesLeftError of the run is raised for.
C5_NoTranslationSkipsPair ==
    /\ caught = NoTranslationAvailableError =>
        /\ pc \in {"for", "finished"}
        /\ \E p \in 1..(i - 1) :
            /\ outcome[p] = "no_translation"
            /\ \A q \in (p + 1)..(i - 1) : outcome[q] = "skipped"
        /\ retries = 3 - attempts + 1
    /\ \A p \in Pairs : outcome[p] = "no_translation" =>
        /\ i > p
        /\ writes[p] = 0
        /\ files[p] = files0[p]
        /\ p \in fetched

\* The first pair had no translation and the run went on to fetch the second.
C5_Witness ==
    /\ NPairs > 1
    /\ outcome[1] = "no_translation"
    /\ i = 2
    /\ pc = "join"
    /\ 2 \in fetched

\* C6: with overwrite off, a pair whose file exists when main is called gets no
\* request at all (root or content), no get_books call, and its file is left as
\* it was; main's only step for it is the skip.
C6_ExistingFilesSkipped ==
    ~overwrite =>
        \A p \in Pairs : files0[p] # <<>> =>
            /\ p \notin fetched
            /\ writes[p] = 0
            /\ files[p] = files0[p]
            /\ outcome[p] \in {"", "skipped"}
            /\ i > p => outcome[p] = "skipped"
            /\ i = p => pc = "for"

\* The first pair was skipped, the second was downloaded and written.
C6_Witness ==
    /\ ~overwrite
    /\ NPairs > 1
    /\ files0[1] # <<>>
    /\ outcome[1] = "skipped"
    /\ outcome[2] = "persisted"
    /\ pc = "finished"

\* C9 (as claimed): the NotImplementedError of an unrecognized entry is not
\* absorbed by the retry loop of main: once it is raised there is no backoff and no
\* further get_books call for the pair.
C9_SchemaViolationNotRetried ==
    caught = NotImplementedError => pc \notin {"sleep", "while", "root", "join"}

(***************************************************************************)
(* Claims about the pool: the assembled corpus, the number of workers, the *)
(* backoff of one worker and the origin of NoTranslationAvailableError.    *)
(***************************************************************************)

\* The contents the records of a structure's locators make up, each under the
\* locator it was built for.
ContentsOf(structure) == [u \in Locators(structure) |-> get_content(u)]

\* C11: whatever the order in which the content fetches of a get_books call
\* finish, the contents it assembles are those of the call's structure, each
\* record under the locator its fetch was dispatched for, and so is every file
\* written in the run.
C11_AssemblyIgnoresCompletionOrder ==
    /\ (pc = "join" /\ \A k \in DOMAIN futures : Succeeded(k)) =>
        /\ contents_dict = ContentsOf(book.structure)
        /\ \A k \in DOMAIN futures :
            /\ futures[k].uri \in DOMAIN contents_dict
            /\ contents_dict[futures[k].uri].uri = futures[k].uri
    /\ \A p \in Pairs : files[p] # files0[p] =>
        files[p][1].contents = ContentsOf(files[p][1].structure)

\* Both fetches of a call have succeeded, the one submitted last finished first,
\* and the contents assembled hold each record under its own locator.
C11_Witness ==
    /\ pc = "join"
    /\ Len(futures) = 2
    /\ \A k \in DOMAIN futures : Succeeded(k)
    /\ futures[2].seq = 1
    /\ futures[1].seq = 2
    /\ futures[1].uri # futures[2].uri
    /\ contents_dict[futures[2].uri] = get_content(futures[2].uri)

\* The get_content calls a worker thread is executing: those of the running
\* get_books call and those left over from calls that have raised.
Executing == {k \in DOMAIN futures : futures[k].st = "running"}

\* C12: in every reachable state the number of get_content calls being executed
\* is at most the pool size given on the command line, the workers left over
\* from a failed get_books call counted together with those of the next call.
C12_AtMostThreadsWorkers ==
    /\ Cardinality(Executing) + stale <= threads
    /\ stale >= 0

\* A worker of a failed get_books call is still busy while a fetch of the next
\* call runs, and the pool is full.
C12_Witness ==
    /\ stale > 0
    /\ Executing # {}
    /\ attempts > 1
    /\ Cardinality(Executing) + stale = threads
    /\ \E k \in DOMAIN futures : futures[k].st = "pending"

\* TRUE iff no locator occurs twice in the sequence.
Distinct(uris) == \A j, k \in DOMAIN uris : uris[j] = uris[k] => j = k

\* C13: in every file written in the run the keys of contents are exactly the
\* locators of the flattened structure: none is missing, none is absent from the
\* structure, none is an excluded locator of the pair's scripture, and when the
\* flattened locators are pairwise distinct there are as many keys as locators.
C13_ContentsKeysAreStructureLocators ==
    \A p \in Pairs : files[p] # files0[p] =>
        LET file == files[p][1]
            uris == get_uris_from_entries(file.structure)
            keys == DOMAIN file.contents
        IN  /\ keys = {uris[k] : k \in DOMAIN uris}
            /\ keys \cap DEFAULT_EXCLUDED(ScriptureOf(p)) = {}
            /\ Distinct(uris) => Cardinality(keys) = Len(uris)
            /\ Cardinality(keys) <= Len(uris)

\* One file was written from a store with an excluded locator and two distinct
\* ones, another from a store that lists one locator twice.
C13_Witness ==
    /\ NPairs > 1
    /\ files[1] # files0[1]
    /\ files[2] # files0[2]
    /\ DOMAIN files[1][1].contents = {"ch1", "ch2"}
    /\ Len(get_uris_from_entries(files[2][1].structure)) = 2
    /\ DOMAIN files[2][1].contents = {"ch1"}

(***************************************************************************)
(* Termination of the run.                                                 *)
(***************************************************************************)

\* main has returned or has raised NoRetriesLeftError, and no worker is busy.
RunEnded == pc \in {"finished", "raised"} /\ stale = 0 /\ futures = <<>>

\* The pairs main has started on and is done with.
Left_behind == {p \in Pairs : p < i \/ (p = i /\ pc = "raised")}

\* What the outcome recorded for a pair stands for.
OutcomeHolds(p) ==
    CASE outcome[p] = "skipped" ->
           ~overwrite /\ files0[p] # <<>> /\ files[p] = files0[p] /\ p \notin fetched
      [] outcome[p] = "persisted" ->
           writes[p] = 1 /\ files[p] # <<>> /\ p \in fetched
      [] outcome[p] = "no_translation" ->
           writes[p] = 0 /\ files[p] = files0[p] /\ p \in fetched
      [] outcome[p] = "fatal" ->
           writes[p] = 0 /\ files[p] = files0[p] /\ p = i /\ pc = "raised"
      [] OTHER -> FALSE

\* C14: when every request returns, the run ends (main returns or raises, and
\* every worker ends) and stays ended; every pair main is done with has one of
\* the four outcomes (skipped as existing, persisted, skipped as untranslated,
\* fatal), and the outcome is what happened; a pair main is still working on has
\* had at most 3 get_books calls and each page fetch in flight at most 5 passes.
C14_RunTerminatesWithOutcomes ==
    /\ <>[]RunEnded
    /\ [](\A p \in Left_behind : OutcomeHolds(p))
    /\ [](\A p \in Pairs \ Left_behind : outcome[p] = "")
    /\ [](/\ attempts \in 0..PairRetries
          /\ retries \in 0..PairRetries
          /\ root.retries \in 0..PageRetries
          /\ \A k \in DOMAIN futures : futures[k].rs.retries \in 0..PageRetries)

\* The run ended with one pair skipped as untranslated and a later one fatal,
\* after the page-level budget of a fetch had run out.
C14_Witness ==
    /\ RunEnded
    /\ NPairs > 1
    /\ outcome[1] = "no_translation"
    /\ outcome[2] = "fatal"
    /\ caught = NoRetriesLeftError

\* The futures whose worker is in the time.sleep(2) of get_reader_store.
InBackoff == {k \in DOMAIN futures : futures[k].st = "running" /\ futures[k].rs.pc = "sleep"}

\* C15: while the worker of one content fetch is in its page-level backoff, every
\* other running fetch of the same get_books call can take its next step, with
\* the sleeping worker left as it is: a fetch about to send its request can send
\* it and finish with its record, and a fetch that sleeps too can wake up.
C15_BackoffBlocksOnlyItsWorker ==
    \A k \in InBackoff : \A j \in DOMAIN futures \ {k} :
        futures[j].st = "running" =>
            /\ futures[j].rs.pc \in {"run", "sleep"}
            /\ futures[j].rs.pc = "run" =>
                ENABLED (/\ FutureRequest(j)
                         /\ Succeeded(j)'
                         /\ futures'[k] = futures[k])
            /\ futures[j].rs.pc = "sleep" =>
                ENABLED (FutureWake(j) /\ futures'[k] = futures[k])

\* The first fetch is in backoff after a failed pass, the second is running and
\* about to send its request.
C15_Witness ==
    /\ 1 \in InBackoff
    /\ futures[1].rs.retries = PageRetries - 1
    /\ Len(futures) = 2
    /\ futures[2].st = "running"
    /\ futures[2].rs.pc = "run"

\* C16: no content fetch ever raises NoTranslationAvailableError, whatever the
\* server answers; a pair is marked untranslated only by the step of main that is
\* the root request of that pair, before any content fetch of the call exists; a
\* content fetch that is refused goes into backoff with one attempt less of its
\* budget of 5, and the pair is still being worked on.
C16_NoTranslationOnlyFromRoot ==
    /\ [](\A k \in DOMAIN futures :
            /\ futures[k].rs.exc # NoTranslationAvailableError
            /\ futures[k].rs.pc = "sleep" =>
                /\ futures[k].rs.retries \in 0..(PageRetries - 1)
                /\ pc = "join"
                /\ outcome[i] = "")
    /\ [][\A p \in Pairs :
            (outcome'[p] = "no_translation" /\ outcome[p] # "no_translation") =>
                /\ p = i
                /\ pc = "root"
                /\ root.pc = "run"
                /\ futures = <<>>
                /\ caught' = NoTranslationAvailableError]_vars
    /\ [][(caught' = NoTranslationAvailableError /\ caught # caught') =>
            pc = "root" /\ outcome'[i] = "no_translation"]_vars
    /\ [][\A k \in DOMAIN futures :
            (/\ DOMAIN futures' = DOMAIN futures
             /\ futures[k].rs.pc = "run"
             /\ futures'[k].rs.pc = "sleep") =>
                /\ futures'[k].rs.retries = futures[k].rs.retries - 1
                /\ futures'[k].st = "running"
                /\ outcome' = outcome
                /\ pc' = pc
                /\ retries' = retries]_vars

\* A content fetch was refused three times and is in backoff with 2 attempts
\* left; the pair is in its first get_books call and has no outcome yet.
C16_Witness ==
    /\ pc = "join"
    /\ attempts = 1
    /\ outcome[i] = ""
    /\ \E k \in DOMAIN futures :
        /\ futures[k].st = "running"
        /\ futures[k].rs.pc = "sleep"
        /\ futures[k].rs.retries = PageRetries - 3
        /\ futures[k].rs.html_doc = <<>>

(***************************************************************************)
(* The frame of a pair that is not persisted.                              *)
(***************************************************************************)

\* The pairs whose output file exists when main is called with overwrite on.
Overwritable == {p \in Pairs : overwrite /\ files0[p] # <<>>}

\* C20: with overwrite on, an output file that exists when main is called keeps
\* its content through every get_books call of its pair, through the backoffs
\* and after the pair has ended as untranslated or in NoRetriesLeftError; it is
\* opened for writing only in the step that ends a get_books call all of whose
\* fetches have succeeded, and that step persists the pair.
C20_ExistingFileKeptUnlessPersisted ==
    /\ [](\A p \in Overwritable :
            outcome[p] # "persisted" => files[p] = files0[p] /\ writes[p] = 0)
    /\ [][\A p \in Overwritable :
            (files'[p] # files[p] \/ writes'[p] # writes[p]) =>
                /\ pc = "join"
                /\ p = i
                /\ \A k \in DOMAIN futures : Succeeded(k)
                /\ outcome'[p] = "persisted"
                /\ files'[p][1].structure = book.structure]_vars

\* With overwrite on and both files present, the first pair ended as untranslated
\* and the second in NoRetriesLeftError after requests were made for both; both
\* files are as they were.
C20_Witness ==
    /\ NPairs > 1
    /\ Overwritable = Pairs
    /\ outcome[1] = "no_translation"
    /\ outcome[2] = "fatal"
    /\ fetched = {1, 2}
    /\ files = files0
    /\ pc = "raised"

(***************************************************************************)
(* Claims about the record of a content page (SpecContent)                 *)
(***************************************************************************)

\* The verse-tagged elements of the body block of the store, in document order.
SourceVerses ==
    IF doc.store.body_block = <<>> THEN <<>>
    ELSE SelectSeq(doc.store.body_block[1], LAMBDA el : el.name = "p.verse")

\* The characters of an element in document order, each with whether it stands
\* inside a footnote marker or a verse-number child.
RECURSIVE Marked(_)
Marked(nodes) ==
    IF nodes = <<>> THEN <<>>
    ELSE LET n == Head(nodes)
         IN  [j \in DOMAIN n.text |->
                [c |-> n.text[j], cleared |-> n.tag \in {"sup.marker", "span.verse-number"}]]
             \o Marked(Tail(nodes))

\* The characters of an element outside its markers and verse numbers.
OwnText(el) ==
    LET own == SelectSeq(Marked(el.nodes), LAMBDA m : ~m.cleared)
    IN  [j \in DOMAIN own |-> own[j].c]

\* C17: for a body block with N >= 1 verse-tagged elements the record has exactly
\* N verses, the k-th numbered k whatever number the page gives it (the verses
\* numbered 5, 5, 7 on the page become 1, 2, 3), and the text of the k-th is the
\* k-th element's characters outside its marker and verse-number children, with
\* the blanks at both ends removed: no character of those children is in it.
C17_VersesRenumberedAndCleared ==
    (doc.done /\ SourceVerses # <<>>) =>
        /\ "verses" \in DOMAIN doc.data
        /\ Len(doc.data["verses"]) = Len(SourceVerses)
        /\ \A k \in DOMAIN SourceVerses :
            /\ doc.data["verses"][k].number = k
            /\ doc.data["verses"][k].text = strip(OwnText(SourceVerses[k]))
            /\ Len(doc.data["verses"][k].text) <= Len(OwnText(SourceVerses[k]))
        /\ doc.store.body_block = <<Verses557>> =>
            [k \in 1..3 |-> doc.data["verses"][k].number] = <<1, 2, 3>>

\* The record of the page with the verses numbered 5, 5, 7: three verses, and the
\* text of the third has neither its number 7 nor its marker a.
C17_Witness ==
    /\ doc.done
    /\ doc.store.body_block = <<Verses557>>
    /\ Len(doc.data["verses"]) = 3
    /\ doc.data["verses"][3] = [number |-> 3, text |-> <<"x", " ", "5">>]
    /\ doc.data["verses"][1] = [number |-> 1, text |-> <<"x">>]

\* The p elements of the body block of the store, verse-tagged or not.
SourceParagraphs ==
    IF doc.store.body_block = <<>> THEN <<>>
    ELSE SelectSeq(doc.store.body_block[1], LAMBDA el : el.name \in {"p", "p.verse"})

\* C18: no record has both verses and paragraphs (key "text").  With a body block
\* and at least one verse-tagged element it has verses and no paragraphs; with a
\* body block and no verse-tagged element it has paragraphs, one per p element
\* (none when there is no p), and no verses; without a body block it has neither,
\* a warning is logged, and the record with uri, title and data_type is returned.
C18_VersesOrParagraphsNeverBoth ==
    doc.done =>
        LET keys == DOMAIN doc.data
            body == doc.store.body_block
        IN  /\ {"uri", "title", "data_type"} \subseteq keys
            /\ ~({"verses", "text"} \subseteq keys)
            /\ (body # <<>> /\ SourceVerses # <<>>) =>
                "verses" \in keys /\ "text" \notin keys /\ ~doc.warned
            /\ (body # <<>> /\ SourceVerses = <<>>) =>
                /\ "text" \in keys
                /\ "verses" \notin keys
                /\ Len(doc.data["text"]) = Len(SourceParagraphs)
                /\ ~doc.warned
            /\ body = <<>> =>
                "verses" \notin keys /\ "text" \notin keys /\ doc.warned

\* The record of a page whose body block holds no p element at all: the
\* paragraphs are there and empty.
C18_Witness ==
    /\ doc.done
    /\ doc.store.body_block # <<>>
    /\ Len(doc.store.body_block[1]) = 1
    /\ SourceParagraphs = <<>>
    /\ "text" \in DOMAIN doc.data
    /\ doc.data["text"] = <<>>
    /\ "verses" \notin DOMAIN doc.data

\* C19 (as claimed): the record has a book_title only when the body has an
\* h1#title1 whose text differs from the title of the store: with the element
\* absent there is none, and with the element's text equal to the title there is
\* none either.
C19_BookTitleOnlyWhenDistinct ==
    doc.done =>
        /\ doc.store.title1 = <<>> => "book_title" \notin DOMAIN doc.data
        /\ (doc.store.title1 # <<>> /\ doc.store.title1[1] = doc.store.title) =>
            "book_title" \notin DOMAIN doc.data
        /\ "book_title" \in DOMAIN doc.data =>
            /\ doc.store.title1 # <<>>
            /\ doc.data["book_title"] = strip(doc.store.title1[1])

====
